---- MODULE Spec2Model ----
(***************************************************************************)
(* Comment threads of the blogging platform: the comment store of          *)
(* MemStorage and of DatabaseStorage (server/storage.ts), the tree         *)
(* builders behind getArticleComments, and the comment routes of           *)
(* server/routes.ts.                                                       *)
(***************************************************************************)
EXTENDS Integers, Sequences, FiniteSets, TLC

\* ------------------------------------------------------------------------
\* Bounds of the model
\* ------------------------------------------------------------------------
MaxComments == 3      \* ids handed out by the comment id counter
MaxTime == 2          \* distinct values of the clock read at creation
NumUsers == 2         \* rows of the users table
NumArticles == 2      \* rows of the articles table

\* ------------------------------------------------------------------------
\* Data
\* ------------------------------------------------------------------------
\* SQL NULL / JS undefined of an optional integer (parent_id is nullable).
Null == -1

UserIds == 1..NumUsers
ArticleIds == 1..NumArticles

\* A user row; password is the credential column.
users == [u \in UserIds |-> [id |-> u, username |-> u, password |-> u + 100]]

\* A comment row.
Comment(id, content, authorId, articleId, parentId, createdAt) ==
  [id |-> id, content |-> content, authorId |-> authorId,
   articleId |-> articleId, parentId |-> parentId, createdAt |-> createdAt]

VARIABLES
  storage,     \* which IStorage implementation the exported singleton is
  comments,    \* the stored comments, in insertion order
  commentId,   \* next id (MemStorage.commentId / the serial of comments.id)
  req,         \* the request or storage call being served
  res,         \* its response or return value
  pre,         \* the stored comments when the request arrived
  inflight,    \* the DELETE handlers suspended at an awaited database call
  building,    \* a buildCommentTree call in progress, one visit at a time
  posting      \* the POST handler suspended at an awaited database call

vars == <<storage, comments, commentId, req, res, pre, inflight, building, posting>>

\* ------------------------------------------------------------------------
\* Helpers over sequences of comments
\* ------------------------------------------------------------------------
Range(s) == {s[i] : i \in 1..Len(s)}

Ids(cs) == {cs[i].id : i \in 1..Len(cs)}

\* commentsData.get(id) / select ... where id = :id, as a 0- or 1-element list
Lookup(cs, id) == SelectSeq(cs, LAMBDA c: c.id = id)

\* JS truthiness of an optional number: undefined, null and 0 are falsy.
Truthy(n) == n # Null /\ n # 0

\* a sort that places a comment before the comments of equal createdAt
InsertByCreatedAtTiesFirst(sorted, c) ==
  LET k == Cardinality({i \in 1..Len(sorted) : sorted[i].createdAt < c.createdAt})
  IN SubSeq(sorted, 1, k) \o <<c>> \o SubSeq(sorted, k + 1, Len(sorted))

\* Array.prototype.sort by createdAt ascending; the sort is stable.
RECURSIVE InsertByCreatedAt(_, _)
InsertByCreatedAt(sorted, c) ==
  IF sorted = <<>> THEN <<c>>
  ELSE IF Head(sorted).createdAt - c.createdAt > 0
       THEN <<c>> \o sorted
       ELSE <<Head(sorted)>> \o InsertByCreatedAt(Tail(sorted), c)

\* getArticleComments without its sort
SortByCreatedAtUnsorted(cs) == cs

RECURSIVE SortByCreatedAt(_)
SortByCreatedAt(cs) ==
  IF cs = <<>> THEN <<>>
  ELSE InsertByCreatedAt(SortByCreatedAt(SubSeq(cs, 1, Len(cs) - 1)), cs[Len(cs)])

IsAscending(cs) ==
  \A i \in 1..Len(cs) : \A j \in i..Len(cs) : cs[i].createdAt <= cs[j].createdAt

\* ORDER BY created_at ASC: every arrangement of the rows that is ascending
\* (the order among equal timestamps is up to the database).
OrderByCreatedAt(rows) ==
  IF rows = <<>> THEN {<<>>}
  ELSE {s \in {[i \in 1..Len(rows) |-> rows[p[i]]] : p \in Permutations(1..Len(rows))} :
          IsAscending(s)}

\* ------------------------------------------------------------------------
\* MemStorage
\* ------------------------------------------------------------------------
\* createComment that takes the map's size plus one as the id, so that the
\* id of a deleted comment comes back and Map.set replaces the entry under it
MemCreateCommentSizeId(cs, id, ins, now) ==
  Append(SelectSeq(cs, LAMBDA c: c.id # Len(cs) + 1),
         Comment(Len(cs) + 1, ins.content, ins.authorId, ins.articleId,
                 ins.parentId, now))

\* createComment: id = this.commentId++, createdAt = new Date(), Map.set
MemCreateComment(cs, id, ins, now) ==
  Append(cs, Comment(id, ins.content, ins.authorId, ins.articleId, ins.parentId, now))

\* deleteComment that reports success whatever the map held
MemDeleteCommentAlwaysTrue(cs, id) ==
  [comments |-> SelectSeq(cs, LAMBDA c: c.id # id), result |-> TRUE, threw |-> FALSE]

\* deleteComment: this.commentsData.delete(id)
MemDeleteComment(cs, id) ==
  [comments |-> SelectSeq(cs, LAMBDA c: c.id # id),
   result   |-> id \in Ids(cs),
   threw    |-> FALSE]

\* buildCommentTree: roots are the comments with a falsy parentId
MemTopLevelComments(cs) == SelectSeq(cs, LAMBDA c: ~Truthy(c.parentId))

\* repliesByParentId[id]: the comments with a truthy parentId equal to id, in
\* input order; the key exists only when there is such a comment
MemRepliesByParentId(cs, id) ==
  SelectSeq(cs, LAMBDA c: Truthy(c.parentId) /\ c.parentId = id)

\* this.usersData.get(authorId)!  -- undefined when there is no such user;
\* an undefined property is absent from the node
MemWithAuthor(c) ==
  IF c.authorId \in DOMAIN users THEN c @@ ("author" :> users[c.authorId]) ELSE c

RECURSIVE MemBuildTree(_, _)
MemBuildTree(cs, commentList) ==
  [i \in 1..Len(commentList) |->
     LET comment == commentList[i]
         children == MemRepliesByParentId(cs, comment.id)
     IN IF children # <<>>
        THEN MemWithAuthor(comment) @@ ("replies" :> MemBuildTree(cs, children))
        ELSE MemWithAuthor(comment)]

MemBuildCommentTree(cs) == MemBuildTree(cs, MemTopLevelComments(cs))

\* getArticleComments without the filter on articleId
MemGetArticleCommentsAllArticles(cs, articleId) ==
  MemBuildCommentTree(SortByCreatedAt(cs))

\* getArticleComments: filter by article, sort by createdAt, build the tree
MemGetArticleComments(cs, articleId) ==
  MemBuildCommentTree(
    SortByCreatedAt(SelectSeq(cs, LAMBDA c: c.articleId = articleId)))

\* ------------------------------------------------------------------------
\* DatabaseStorage
\* ------------------------------------------------------------------------
\* The foreign keys of the comments table: author_id -> users.id,
\* article_id -> articles.id, parent_id -> comments.id (nullable).
\* a comments table whose parent_id column references nothing
DbForeignKeysHoldNoParent(rows, ins) ==
  /\ ins.authorId \in UserIds
  /\ ins.articleId \in ArticleIds

\* a createComment that also refuses a parent of another article
DbForeignKeysHoldSameArticle(rows, ins) ==
  /\ ins.authorId \in UserIds
  /\ ins.articleId \in ArticleIds
  /\ \/ ins.parentId = Null
     \/ /\ ins.parentId \in Ids(rows)
        /\ Lookup(rows, ins.parentId)[1].articleId = ins.articleId

DbForeignKeysHold(rows, ins) ==
  /\ ins.authorId \in UserIds
  /\ ins.articleId \in ArticleIds
  /\ ins.parentId = Null \/ ins.parentId \in Ids(rows)

\* createComment: insert ... returning; the insert fails on a foreign key
DbCreateComment(rows, id, ins, now) ==
  IF DbForeignKeysHold(rows, ins)
  THEN [comments |-> Append(rows, Comment(id, ins.content, ins.authorId,
                                          ins.articleId, ins.parentId, now)),
        threw |-> FALSE]
  ELSE [comments |-> rows, threw |-> TRUE]

\* select ... where parent_id = :id (NULL equals nothing)
DbChildComments(rows, id) ==
  SelectSeq(rows, LAMBDA c: c.parentId # Null /\ c.parentId = id)

\* result.count of "delete from comments where id = :id": the rows deleted
DbDeleteCount(rows, id) == Cardinality({i \in 1..Len(rows) : rows[i].id = id})

\* deleteComment: delete the children recursively, then the row itself.  The
\* row delete fails while another row still refers to it through parent_id.
RECURSIVE DbDeleteComment(_, _)
RECURSIVE DbDeleteChildren(_, _)
\* a loop that deletes the child rows themselves without descending
DbDeleteChildrenShallow(rows, childComments) ==
  [comments |-> SelectSeq(rows, LAMBDA c: c.id \notin Ids(childComments)),
   result |-> FALSE, threw |-> FALSE]

DbDeleteChildren(rows, childComments) ==
  IF childComments = <<>> THEN [comments |-> rows, result |-> FALSE, threw |-> FALSE]
  ELSE LET r == DbDeleteComment(rows, Head(childComments).id)
       IN IF r.threw THEN r ELSE DbDeleteChildren(r.comments, Tail(childComments))

DbDeleteComment(rows, id) ==
  LET afterChildren == DbDeleteChildren(rows, DbChildComments(rows, id))
      remaining == afterChildren.comments
  IN IF afterChildren.threw THEN afterChildren
     ELSE IF DbChildComments(remaining, id) # <<>>
          THEN [comments |-> remaining, result |-> FALSE, threw |-> TRUE]
          ELSE [comments |-> SelectSeq(remaining, LAMBDA c: c.id # id),
                result   |-> DbDeleteCount(remaining, id) > 0,
                threw    |-> FALSE]

\* select from users where id = :authorId, first row; absent when none
DbWithAuthor(c) ==
  IF c.authorId \in DOMAIN users THEN c @@ ("author" :> users[c.authorId]) ELSE c

\* getCommentReplies: always a list, empty for a comment without replies
RECURSIVE DbGetCommentReplies(_, _)
DbGetCommentReplies(allComments, parentId) ==
  LET replies == SelectSeq(allComments, LAMBDA c: c.parentId = parentId)
  IN [i \in 1..Len(replies) |->
        DbWithAuthor(replies[i])
          @@ ("replies" :> DbGetCommentReplies(allComments, replies[i].id))]

DbBuildCommentTree(commentsData) ==
  LET topLevelComments == SelectSeq(commentsData, LAMBDA c: ~Truthy(c.parentId))
  IN [i \in 1..Len(topLevelComments) |->
        DbWithAuthor(topLevelComments[i])
          @@ ("replies" :> DbGetCommentReplies(commentsData, topLevelComments[i].id))]

\* getArticleComments: select where article_id = :a order by created_at
DbGetArticleComments(rows, articleId) ==
  {DbBuildCommentTree(ordered) :
     ordered \in OrderByCreatedAt(SelectSeq(rows, LAMBDA c: c.articleId = articleId))}

\* ------------------------------------------------------------------------
\* Requests and responses
\* ------------------------------------------------------------------------
Contents == {"text"}
Times == 1..MaxTime
CommentIdInputs == 0..MaxComments          \* ids a caller may name
ParentIdInputs == {Null} \cup CommentIdInputs
Requesters == {Null} \cup UserIds          \* Null: no authenticated user
UrlArticleIds == 1..(NumArticles + 1)      \* the last one is no article

NoBody == [content |-> "", authorId |-> Null, articleId |-> Null, parentId |-> Null]

Request(op, user, id, body) == [op |-> op, user |-> user, id |-> id, body |-> body]

\* status and message of the HTTP response (0 and "" for a storage call),
\* whether the call threw, and the JSON body or return value as a list
Response(status, message, threw, value) ==
  [status |-> status, message |-> message, threw |-> threw, value |-> value]

\* A DELETE handler between two awaited database calls: where it is, the
\* authenticated user and the id of the URL, the calls of deleteComment that
\* are suspended (the outermost first), and the answer once it is sent.
Handlers == {1, 2}

Handler(pc, user, id, stack, status, message) ==
  [pc |-> pc, user |-> user, id |-> id, stack |-> stack,
   status |-> status, message |-> message]

Idle == Handler("idle", Null, Null, <<>>, 0, "")

\* A call of buildCommentTree in progress: the list it was given, the
\* lists of comments still to be mapped (the innermost call last), the ids
\* of the comments it made a node of, and the number of steps it took.
Building(pc, input, stack, visited, steps) ==
  [pc |-> pc, input |-> input, stack |-> stack, visited |-> visited, steps |-> steps]

NotBuilding == Building("idle", <<>>, <<>>, <<>>, 0)

\* The POST handler between two awaited database calls: where it is, the
\* authenticated user, the article id of the URL, the parentId of the body,
\* and the answer once it is sent with the id of the comment it created.
Posting(pc, user, articleId, parentId, status, message, created) ==
  [pc |-> pc, user |-> user, articleId |-> articleId, parentId |-> parentId,
   status |-> status, message |-> message, created |-> created]

NotPosting == Posting("idle", Null, Null, Null, 0, "", Null)

Init ==
  /\ storage \in {"MemStorage", "DatabaseStorage"}
  /\ comments = <<>>
  /\ commentId = 1
  /\ req = Request("none", Null, Null, NoBody)
  /\ res = Response(0, "", FALSE, <<>>)
  /\ pre = <<>>
  /\ inflight = [h \in Handlers |-> Idle]
  /\ building = NotBuilding
  /\ posting = NotPosting

\* ------------------------------------------------------------------------
\* Calls of the storage layer (IStorage)
\* ------------------------------------------------------------------------
\* storage.createComment(ins), the clock reading now.  The id counter moves
\* on also when the insert fails.
StorageCreateComment(cs, id, ins, now) ==
  IF storage = "MemStorage"
  THEN [comments |-> MemCreateComment(cs, id, ins, now), threw |-> FALSE]
  ELSE DbCreateComment(cs, id, ins, now)

StorageDeleteComment(cs, id) ==
  IF storage = "MemStorage" THEN MemDeleteComment(cs, id) ELSE DbDeleteComment(cs, id)

StorageGetArticleComments(cs, articleId) ==
  IF storage = "MemStorage" THEN {MemGetArticleComments(cs, articleId)}
  ELSE DbGetArticleComments(cs, articleId)

CreateComment(ins, now) ==
  LET r == StorageCreateComment(comments, commentId, ins, now)
  IN /\ commentId <= MaxComments
     /\ req' = Request("createComment", Null, Null, ins)
     /\ pre' = comments
     /\ commentId' = commentId + 1
     /\ comments' = r.comments
     /\ res' = Response(0, "", r.threw,
                        IF r.threw THEN <<>> ELSE <<r.comments[Len(r.comments)]>>)
     /\ UNCHANGED <<storage, inflight, building, posting>>

DeleteComment(id) ==
  LET r == StorageDeleteComment(comments, id)
  IN /\ req' = Request("deleteComment", Null, id, NoBody)
     /\ pre' = comments
     /\ comments' = r.comments
     /\ res' = Response(0, "", r.threw, IF r.threw THEN <<>> ELSE <<r.result>>)
     /\ UNCHANGED <<storage, commentId, inflight, building, posting>>

\* getArticleComments that sorts the stored comments in place
GetArticleCommentsSortingStore(articleId) ==
  /\ req' = Request("getArticleComments", Null, articleId, NoBody)
  /\ pre' = comments
  /\ \E forest \in StorageGetArticleComments(comments, articleId) :
       res' = Response(0, "", FALSE, forest)
  /\ comments' = SortByCreatedAt(comments)
  /\ UNCHANGED <<storage, commentId, inflight, building, posting>>

GetArticleComments(articleId) ==
  /\ req' = Request("getArticleComments", Null, articleId, NoBody)
  /\ pre' = comments
  /\ \E forest \in StorageGetArticleComments(comments, articleId) :
       res' = Response(0, "", FALSE, forest)
  /\ UNCHANGED <<storage, comments, commentId, inflight, building, posting>>

\* ------------------------------------------------------------------------
\* The comment routes (server/routes.ts)
\* ------------------------------------------------------------------------
\* insertCommentSchema = createInsertSchema(comments).omit({id, createdAt}):
\* content, authorId and articleId are required, parentId is optional.
ValidInsertComment(body) ==
  /\ body.content \in Contents
  /\ body.authorId # Null
  /\ body.articleId # Null

\* the handler without the same-article test
ParentInOtherArticleNever(parentComment, articleId) == FALSE

\* parentComment.articleId !== articleId
ParentInOtherArticle(parentComment, articleId) == parentComment.articleId # articleId

\* the handler without the author test
NotAuthorNever(comment, userId) == FALSE

\* comment.authorId !== userId
NotAuthor(comment, userId) == comment.authorId # userId

\* a handler that passes the validated body on to storage.createComment
PostArticleCommentResultFromBody(cs, id, user, articleId, body, now) ==
  LET parentComment == Lookup(cs, body.parentId)
      ins == [content |-> body.content, authorId |-> body.authorId,
              articleId |-> body.articleId, parentId |-> body.parentId]
      r == StorageCreateComment(cs, id, ins, now)
      Reject(status, message) ==
        [comments |-> cs, inserted |-> FALSE,
         res |-> Response(status, message, FALSE, <<>>)]
  IN IF user = Null THEN Reject(401, "Authentication required")
     ELSE IF ~ValidInsertComment(body) THEN Reject(400, "Validation failed")
     ELSE IF articleId \notin ArticleIds THEN Reject(404, "Article not found")
     ELSE IF Truthy(body.parentId) /\ parentComment = <<>>
          THEN Reject(404, "Parent comment not found")
     ELSE IF Truthy(body.parentId) /\ ParentInOtherArticle(parentComment[1], articleId)
          THEN Reject(400, "Parent comment does not belong to this article")
     ELSE IF r.threw
          THEN [comments |-> r.comments, inserted |-> TRUE,
                res |-> Response(500, "Server error", FALSE, <<>>)]
     ELSE [comments |-> r.comments, inserted |-> TRUE,
           res |-> Response(201, "", FALSE, <<r.comments[Len(r.comments)]>>)]

\* POST /api/articles/:articleId/comments
PostArticleCommentResult(cs, id, user, articleId, body, now) ==
  LET parentComment == Lookup(cs, body.parentId)
      ins == [content |-> body.content, authorId |-> user,
              articleId |-> articleId, parentId |-> body.parentId]
      r == StorageCreateComment(cs, id, ins, now)
      Reject(status, message) ==
        [comments |-> cs, inserted |-> FALSE,
         res |-> Response(status, message, FALSE, <<>>)]
  IN IF user = Null THEN Reject(401, "Authentication required")
     ELSE IF ~ValidInsertComment(body) THEN Reject(400, "Validation failed")
     ELSE IF articleId \notin ArticleIds THEN Reject(404, "Article not found")
     ELSE IF Truthy(body.parentId) /\ parentComment = <<>>
          THEN Reject(404, "Parent comment not found")
     ELSE IF Truthy(body.parentId) /\ ParentInOtherArticle(parentComment[1], articleId)
          THEN Reject(400, "Parent comment does not belong to this article")
     ELSE IF r.threw
          THEN [comments |-> r.comments, inserted |-> TRUE,
                res |-> Response(500, "Server error", FALSE, <<>>)]
     ELSE [comments |-> r.comments, inserted |-> TRUE,
           res |-> Response(201, "", FALSE, <<r.comments[Len(r.comments)]>>)]

PostArticleComment(user, articleId, body, now) ==
  LET r == PostArticleCommentResult(comments, commentId, user, articleId, body, now)
  IN /\ r.inserted => commentId <= MaxComments
     /\ req' = Request("POST", user, articleId, body)
     /\ pre' = comments
     /\ comments' = r.comments
     /\ commentId' = IF r.inserted THEN commentId + 1 ELSE commentId
     /\ res' = r.res
     /\ UNCHANGED <<storage, inflight, building, posting>>

\* DELETE /api/comments/:id
DeleteCommentByIdResult(cs, user, id) ==
  LET comment == Lookup(cs, id)
      r == StorageDeleteComment(cs, id)
      Reject(status, message) ==
        [comments |-> cs, res |-> Response(status, message, FALSE, <<>>)]
  IN IF user = Null THEN Reject(401, "Authentication required")
     ELSE IF comment = <<>> THEN Reject(404, "Comment not found")
     ELSE IF NotAuthor(comment[1], user)
          THEN Reject(403, "Not authorized to delete this comment")
     ELSE IF r.threw
          THEN [comments |-> r.comments,
                res |-> Response(500, "Server error", FALSE, <<>>)]
     ELSE IF ~r.result
          THEN [comments |-> r.comments,
                res |-> Response(500, "Failed to delete comment", FALSE, <<>>)]
     ELSE [comments |-> r.comments,
           res |-> Response(200, "Comment deleted successfully", FALSE, <<>>)]

DeleteCommentById(user, id) ==
  LET r == DeleteCommentByIdResult(comments, user, id)
  IN /\ req' = Request("DELETE", user, id, NoBody)
     /\ pre' = comments
     /\ comments' = r.comments
     /\ res' = r.res
     /\ UNCHANGED <<storage, commentId, inflight, building, posting>>

\* GET /api/articles/:articleId/comments
GetArticleCommentsRoute(articleId) ==
  /\ req' = Request("GET", Null, articleId, NoBody)
  /\ pre' = comments
  /\ IF articleId \notin ArticleIds
     THEN res' = Response(404, "Article not found", FALSE, <<>>)
     ELSE \E forest \in StorageGetArticleComments(comments, articleId) :
            res' = Response(200, "", FALSE, forest)
  /\ UNCHANGED <<storage, comments, commentId, inflight, building, posting>>

\* ------------------------------------------------------------------------
\* DELETE /api/comments/:id against DatabaseStorage, one awaited database
\* call at a time
\* ------------------------------------------------------------------------
\* A suspended call deleteComment(id): the child ids its select returned and
\* the position of the for loop in them.
Frame(id, childComments, next) ==
  [id |-> id, childComments |-> childComments, next |-> next]

\* select ... where parent_id = :id, run now: the call's frame
DbSelectChildComments(rows, id) ==
  LET childComments == DbChildComments(rows, id)
  IN Frame(id, [i \in 1..Len(childComments) |-> childComments[i].id], 1)

Answer(h, status, message) ==
  [inflight EXCEPT ![h] = Handler("done", @.user, @.id, <<>>, status, message)]

\* a loop over childComments that never moves on to the next child
NextChildStuck(frame) == frame

\* for (const child of childComments): the loop moves on to the next child
NextChild(frame) == Frame(frame.id, frame.childComments, frame.next + 1)

\* a deleteComment that deletes its row before it looks at the children
RowDeleteDueAtOnce(frame) == TRUE

\* the for loop over childComments is over: the row delete is the next call
RowDeleteDue(frame) == frame.next > Len(frame.childComments)

\* the request arrives; requireAuth answers 401 without a database call
DeleteRequestArrives(h, user, id) ==
  /\ inflight[h].pc = "idle"
  /\ inflight' =
       IF user = Null
       THEN [inflight EXCEPT ![h] =
               Handler("done", user, id, <<>>, 401, "Authentication required")]
       ELSE [inflight EXCEPT ![h] = Handler("lookup", user, id, <<>>, 0, "")]
  /\ UNCHANGED <<storage, comments, commentId, req, res, pre, building, posting>>

\* await db.select().from(comments).where(eq(comments.id, commentId)), then
\* the tests on the row up to the call of storage.deleteComment
DeleteRequestLookup(h) ==
  LET comment == Lookup(comments, inflight[h].id)
  IN /\ inflight[h].pc = "lookup"
     /\ inflight' =
          IF comment = <<>> THEN Answer(h, 404, "Comment not found")
          ELSE IF NotAuthor(comment[1], inflight[h].user)
               THEN Answer(h, 403, "Not authorized to delete this comment")
          ELSE [inflight EXCEPT ![h].pc = "select"]
     /\ UNCHANGED <<storage, comments, commentId, req, res, pre, building, posting>>

\* the select of the outermost deleteComment(commentId)
DeleteRequestSelect(h) ==
  /\ inflight[h].pc = "select"
  /\ inflight' = [inflight EXCEPT
                    ![h].pc = "cascade",
                    ![h].stack = <<DbSelectChildComments(comments, inflight[h].id)>>]
  /\ UNCHANGED <<storage, comments, commentId, req, res, pre, building, posting>>

\* the next database call of the innermost suspended deleteComment: the
\* select of its next child's deleteComment, or its own row delete.  The row
\* delete throws while a row refers to the row through parent_id; the
\* exception reaches the catch of the route.
DeleteRequestCascade(h) ==
  LET stack == inflight[h].stack
      top == stack[Len(stack)]
      outer == SubSeq(stack, 1, Len(stack) - 1)
  IN /\ inflight[h].pc = "cascade"
     /\ IF ~RowDeleteDue(top)
        THEN /\ inflight' =
                  [inflight EXCEPT ![h].stack =
                     Append(Append(outer, NextChild(top)),
                            DbSelectChildComments(comments, top.childComments[top.next]))]
             /\ UNCHANGED comments
        ELSE IF DbChildComments(comments, top.id) # <<>>
        THEN /\ inflight' = Answer(h, 500, "Server error")
             /\ UNCHANGED comments
        ELSE /\ comments' = SelectSeq(comments, LAMBDA c: c.id # top.id)
             /\ inflight' =
                  IF outer # <<>> THEN [inflight EXCEPT ![h].stack = outer]
                  ELSE IF DbDeleteCount(comments, top.id) > 0
                       THEN Answer(h, 200, "Comment deleted successfully")
                       ELSE Answer(h, 500, "Failed to delete comment")
     /\ UNCHANGED <<storage, commentId, req, res, pre, building, posting>>

\* ------------------------------------------------------------------------
\* POST /api/articles/:articleId/comments against DatabaseStorage, one
\* awaited database call at a time
\* ------------------------------------------------------------------------
PostAnswer(status, message, created) ==
  Posting("done", posting.user, posting.articleId, posting.parentId,
          status, message, created)

\* the request arrives with a body that passes validateRequest; requireAuth
\* answers 401 without a database call
PostRequestArrives(user, articleId, parentId) ==
  /\ posting.pc = "idle"
  /\ commentId <= MaxComments
  /\ posting' =
       IF user = Null
       THEN Posting("done", user, articleId, parentId, 401, "Authentication required", Null)
       ELSE Posting("article", user, articleId, parentId, 0, "", Null)
  /\ UNCHANGED <<storage, comments, commentId, req, res, pre, inflight, building>>

\* await storage.getArticleById(articleId)
PostRequestArticle ==
  /\ posting.pc = "article"
  /\ posting' =
       IF posting.articleId \notin ArticleIds THEN PostAnswer(404, "Article not found", Null)
       ELSE IF Truthy(posting.parentId) THEN [posting EXCEPT !.pc = "parent"]
       ELSE [posting EXCEPT !.pc = "insert"]
  /\ UNCHANGED <<storage, comments, commentId, req, res, pre, inflight, building>>

\* await db.select().from(comments).where(eq(comments.id, parentId)) and the
\* two tests on the parent
PostRequestParent ==
  LET parentComment == Lookup(comments, posting.parentId)
  IN /\ posting.pc = "parent"
     /\ posting' =
          IF parentComment = <<>> THEN PostAnswer(404, "Parent comment not found", Null)
          ELSE IF ParentInOtherArticle(parentComment[1], posting.articleId)
               THEN PostAnswer(400, "Parent comment does not belong to this article", Null)
          ELSE [posting EXCEPT !.pc = "insert"]
     /\ UNCHANGED <<storage, comments, commentId, req, res, pre, inflight, building>>

\* await storage.createComment({content, authorId, articleId, parentId})
PostRequestInsert ==
  LET ins == [content |-> "text", authorId |-> posting.user,
              articleId |-> posting.articleId, parentId |-> posting.parentId]
      r == DbCreateComment(comments, commentId, ins, 1)
  IN /\ posting.pc = "insert"
     /\ comments' = r.comments
     /\ commentId' = commentId + 1
     /\ posting' = IF r.threw THEN PostAnswer(500, "Server error", Null)
                   ELSE PostAnswer(201, "", commentId)
     /\ UNCHANGED <<storage, req, res, pre, inflight, building>>

\* ------------------------------------------------------------------------
\* buildCommentTree, one comment at a time
\* ------------------------------------------------------------------------
\* a buildCommentTree that takes every comment of the list as a root
BuildRootsEveryComment(input) == input

\* topLevelComments: the comments without (truthy) parentId, in both
\* implementations
BuildRoots(input) ==
  IF storage = "MemStorage" THEN MemTopLevelComments(input)
  ELSE SelectSeq(input, LAMBDA c: ~Truthy(c.parentId))

\* the list the recursion descends into after making the node of comment:
\* MemStorage calls buildTree(children) only when repliesByParentId has the
\* key, DatabaseStorage always calls getCommentReplies
BuildReplies(input, comment) ==
  IF storage = "MemStorage"
  THEN LET children == MemRepliesByParentId(input, comment.id)
       IN IF children # <<>> THEN <<children>> ELSE <<>>
  ELSE <<SelectSeq(input, LAMBDA c: c.parentId = comment.id)>>

\* getArticleComments(articleId) up to the call of buildCommentTree
BuildCommentTreeStarts(articleId) ==
  /\ building.pc = "idle"
  /\ \E input \in
         IF storage = "MemStorage"
         THEN {SortByCreatedAt(SelectSeq(comments, LAMBDA c: c.articleId = articleId))}
         ELSE OrderByCreatedAt(SelectSeq(comments, LAMBDA c: c.articleId = articleId)) :
       building' = Building("walk", input, <<BuildRoots(input)>>, <<>>, 0)
  /\ UNCHANGED <<storage, comments, commentId, req, res, pre, inflight, posting>>

\* one step of the recursion on the innermost pending list: its next
\* comment becomes a node and the list of its replies becomes pending, or
\* the list is finished and the call returns.  Both implementations go depth
\* first (map in MemStorage, for ... await in DatabaseStorage).
BuildCommentTreeVisits ==
  LET stack == building.stack
      list == stack[Len(stack)]
      outer == SubSeq(stack, 1, Len(stack) - 1)
  IN /\ building.pc = "walk"
     /\ building' =
          IF list = <<>>
          THEN Building(IF outer = <<>> THEN "done" ELSE "walk", building.input,
                        outer, building.visited, building.steps + 1)
          ELSE Building("walk", building.input,
                        Append(outer, Tail(list))
                          \o BuildReplies(building.input, Head(list)),
                        Append(building.visited, Head(list).id),
                        building.steps + 1)
     /\ UNCHANGED <<storage, comments, commentId, req, res, pre, inflight, posting>>

\* ------------------------------------------------------------------------
\* Specifications
\* ------------------------------------------------------------------------
\* The JSON bodies posted: the body of the client's comment form (content
\* and optional parentId, nothing else) and bodies that also carry an
\* authorId and an articleId.
ClientBodies ==
  [content : Contents, authorId : {Null}, articleId : {Null}, parentId : {Null, 1}]

CompleteBodies ==
  [content : Contents, authorId : {1}, articleId : {1}, parentId : ParentIdInputs]

\* POST requests: any signed-in user on any article id with any of the
\* bodies, and an anonymous request.
PostRequests ==
  (UserIds \X UrlArticleIds \X (ClientBodies \cup CompleteBodies))
    \cup ({Null} \X {1} \X {b \in CompleteBodies : b.parentId = Null})

\* Requests through the routes, served one after the other; the clock does
\* not move between them.
Next ==
  \/ \E r \in PostRequests : PostArticleComment(r[1], r[2], r[3], 1)
  \/ \E user \in Requesters, id \in CommentIdInputs : DeleteCommentById(user, id)
  \/ \E a \in UrlArticleIds : GetArticleCommentsRoute(a)

Spec == Init /\ [][Next]_vars

\* Direct calls of the storage layer by one author on one article at one
\* clock reading, with any parentId.
StorageInserts ==
  [content : Contents, authorId : {1}, articleId : {1}, parentId : ParentIdInputs]

StorageNext ==
  \/ \E ins \in StorageInserts : CreateComment(ins, 1)
  \/ \E id \in CommentIdInputs : DeleteComment(id)
  \/ \E a \in ArticleIds : GetArticleComments(a)

StorageSpec == Init /\ [][StorageNext]_vars

\* Building the tree of comments created at any clock readings, with any
\* parentId.
TreeNext ==
  \/ \E ins \in StorageInserts, now \in Times : CreateComment(ins, now)
  \/ \E a \in ArticleIds : GetArticleComments(a)

TreeSpec == Init /\ [][TreeNext]_vars

\* Direct calls of the storage layer that also name an authorId that is no
\* row of users.
AuthorInserts ==
  [content : Contents, authorId : {1, NumUsers + 1}, articleId : {1},
   parentId : ParentIdInputs]

AuthorNext ==
  \/ \E ins \in AuthorInserts : CreateComment(ins, 1)
  \/ \E a \in ArticleIds : GetArticleComments(a)

AuthorSpec == Init /\ [][AuthorNext]_vars

\* Direct calls of the storage layer for comments of any article, with any
\* parentId.
ArticleInserts ==
  [content : Contents, authorId : {1}, articleId : ArticleIds,
   parentId : ParentIdInputs]

ArticleNext ==
  \/ \E ins \in ArticleInserts : CreateComment(ins, 1)
  \/ \E a \in ArticleIds : GetArticleComments(a)

ArticleSpec == Init /\ [][ArticleNext]_vars

\* DELETE requests of signed-in users served concurrently by DatabaseStorage:
\* the comments are stored first, then each handler runs one awaited
\* database call at a time, in any interleaving with the other.
ConcInit == Init /\ storage = "DatabaseStorage"

ConcNext ==
  \/ /\ \A h \in Handlers : inflight[h].pc = "idle"
     /\ \E ins \in StorageInserts : CreateComment(ins, 1)
  \/ \E h \in Handlers, user \in Requesters, id \in 1..MaxComments :
       DeleteRequestArrives(h, user, id)
  \/ \E h \in Handlers : DeleteRequestLookup(h)
  \/ \E h \in Handlers : DeleteRequestSelect(h)
  \/ \E h \in Handlers : DeleteRequestCascade(h)

ConcSpec == ConcInit /\ [][ConcNext]_vars

\* The event loop resumes every handler whose awaited database call has
\* completed: no handler stays suspended for ever.
ConcFairSpec ==
  /\ ConcSpec
  /\ \A h \in Handlers :
       WF_vars(DeleteRequestLookup(h) \/ DeleteRequestSelect(h) \/ DeleteRequestCascade(h))

\* A POST create-comment request served concurrently with DELETE requests
\* by DatabaseStorage: the comments are stored first, then the handlers run
\* one awaited database call at a time, in any interleaving.
RaceNext ==
  \/ /\ posting.pc = "idle"
     /\ ConcNext
  \/ /\ posting.pc # "idle"
     /\ \/ \E h \in Handlers, user \in Requesters, id \in 1..MaxComments :
            DeleteRequestArrives(h, user, id)
        \/ \E h \in Handlers : DeleteRequestLookup(h)
        \/ \E h \in Handlers : DeleteRequestSelect(h)
        \/ \E h \in Handlers : DeleteRequestCascade(h)
  \/ \E user \in Requesters, a \in UrlArticleIds, parentId \in ParentIdInputs :
       PostRequestArrives(user, a, parentId)
  \/ PostRequestArticle
  \/ PostRequestParent
  \/ PostRequestInsert

RaceSpec == ConcInit /\ [][RaceNext]_vars

\* Building the tree of comments stored with any parentId, one visit at a
\* time.
BuildNext ==
  \/ /\ building.pc = "idle"
     /\ \E ins \in StorageInserts : CreateComment(ins, 1)
  \/ \E a \in ArticleIds : BuildCommentTreeStarts(a)
  \/ BuildCommentTreeVisits

BuildSpec == Init /\ [][BuildNext]_vars

\* ------------------------------------------------------------------------
\* The parentId relation of a list of comments
\* ------------------------------------------------------------------------
ParentIdOf(cs, id) == IF id \in Ids(cs) THEN Lookup(cs, id)[1].parentId ELSE Null

\* following parentId links from id reaches target in at most fuel steps
RECURSIVE Reaches(_, _, _, _)
Reaches(cs, id, target, fuel) ==
  \/ id = target
  \/ /\ fuel > 0
     /\ ParentIdOf(cs, id) # Null
     /\ Reaches(cs, ParentIdOf(cs, id), target, fuel - 1)

\* target and the stored comments whose parentId chain leads to target
Subtree(cs, target) == {id \in Ids(cs) : Reaches(cs, id, target, Len(cs))}

Acyclic(cs) ==
  \A id \in Ids(cs) :
    ParentIdOf(cs, id) = Null \/ ~Reaches(cs, ParentIdOf(cs, id), id, Len(cs))

Without(cs, ids) == SelectSeq(cs, LAMBDA c: c.id \notin ids)

\* ------------------------------------------------------------------------
\* C1  DatabaseStorage.deleteComment(R) on a store whose parent relation is a
\* forest removes R and every transitive descendant of R and nothing else:
\* the stored comments afterwards are the prior ones without that subtree.
\* ------------------------------------------------------------------------
C1_DbDeleteRemovesSubtree ==
  (req.op = "deleteComment" /\ storage = "DatabaseStorage" /\ Acyclic(pre))
    => /\ ~res.threw
       /\ comments = Without(pre, Subtree(pre, req.id))

\* a delete of the head of a chain R -> B -> C took all three away
C1_Witness ==
  /\ req.op = "deleteComment" /\ storage = "DatabaseStorage"
  /\ \E b, c \in Ids(pre) :
       /\ ParentIdOf(pre, b) = req.id /\ ParentIdOf(pre, c) = b
       /\ {req.id, b, c} \cap Ids(comments) = {}
  /\ req.id \in Ids(pre)

\* ------------------------------------------------------------------------
\* C2  MemStorage.deleteComment(R) cascades: afterwards R and every
\* transitive descendant of R are absent from commentsData and every other
\* comment is still present.
\* ------------------------------------------------------------------------
C2_MemDeleteCascades ==
  (req.op = "deleteComment" /\ storage = "MemStorage" /\ req.id \in Ids(pre))
    => comments = Without(pre, Subtree(pre, req.id))

Removed == {c \in Range(pre) : c.id \notin Ids(comments)}

C3_OnlyOwnCommentsRemoved ==
  req.op = "DELETE" => \A c \in Removed : c.authorId = req.user

\* C3, for the comment named in the URL: comments disappear through a DELETE
\* request only when the comment named in the URL is stored and its authorId
\* is the requester's id; what disappears is that comment and transitive
\* replies to it, whoever wrote the replies.
C3_OnlyAuthorDeletesThread ==
  (req.op = "DELETE" /\ Removed # {})
    => /\ req.user # Null
       /\ req.id \in Ids(pre)
       /\ Lookup(pre, req.id)[1].authorId = req.user
       /\ \A c \in Removed : c.id \in Subtree(pre, req.id)

\* a DELETE by the author of a comment took away another user's reply
C3_Witness ==
  /\ req.op = "DELETE"
  /\ res.status = 200
  /\ \E c \in Removed : c.id # req.id /\ c.authorId # req.user

\* ------------------------------------------------------------------------
\* C7  A POST create-comment request whose parentId identifies no stored
\* comment is answered 404 and leaves the stored comments unchanged.
\* ------------------------------------------------------------------------
C7_MissingParentRejected ==
  (/\ req.op = "POST"
   /\ req.user # Null
   /\ ValidInsertComment(req.body)
   /\ req.body.parentId # Null
   /\ req.body.parentId \notin Ids(pre))
    => (res.status = 404 /\ comments = pre)

\* ------------------------------------------------------------------------
\* C8  A POST create-comment request on article a whose parentId identifies
\* a stored comment of another article is rejected before any insert, with
\* 400 once it is authenticated and valid, and the stored comments are
\* unchanged.
\* ------------------------------------------------------------------------
ParentOfOtherArticle ==
  /\ req.op = "POST"
  /\ req.id \in ArticleIds
  /\ req.body.parentId \in Ids(pre)
  /\ Lookup(pre, req.body.parentId)[1].articleId # req.id

C8_CrossArticleParentRejected ==
  ParentOfOtherArticle
    => /\ comments = pre
       /\ res.status \in {400, 401}
       /\ (req.user # Null /\ ValidInsertComment(req.body))
            => /\ res.status = 400
               /\ res.message = "Parent comment does not belong to this article"

C8_Witness ==
  /\ ParentOfOtherArticle
  /\ req.user # Null
  /\ ValidInsertComment(req.body)
  /\ res.status = 400

\* ------------------------------------------------------------------------
\* C9  An authenticated POST create-comment request on an existing article
\* whose body carries only content and an optional parentId (no authorId, no
\* articleId) passes validation, persists one comment and answers 201 with
\* the created comment.
\* ------------------------------------------------------------------------
C9_ClientBodyAccepted ==
  (/\ req.op = "POST"
   /\ req.user # Null
   /\ req.id \in ArticleIds
   /\ req.body.authorId = Null /\ req.body.articleId = Null
   /\ \/ req.body.parentId = Null
      \/ /\ req.body.parentId \in Ids(pre)
         /\ Lookup(pre, req.body.parentId)[1].articleId = req.id)
    => /\ res.status = 201
       /\ Len(comments) = Len(pre) + 1
       /\ res.value = <<comments[Len(comments)]>>

\* ------------------------------------------------------------------------
\* Forests
\* ------------------------------------------------------------------------
HasReplies(node) == "replies" \in DOMAIN node

RepliesOf(node) == IF HasReplies(node) THEN node.replies ELSE <<>>

\* the nodes of a forest, at every depth
RECURSIVE Nodes(_)
Nodes(forest) ==
  UNION {{forest[i]} \cup Nodes(RepliesOf(forest[i])) : i \in 1..Len(forest)}

NodeIds(forest) == [i \in 1..Len(forest) |-> forest[i].id]

\* the comments of article a among the stored ones
OfArticle(cs, a) == SelectSeq(cs, LAMBDA c: c.articleId = a)

IsForestCall == req.op = "getArticleComments" /\ ~res.threw

\* ------------------------------------------------------------------------
\* C4  In the forest returned by getArticleComments, by MemStorage and by
\* DatabaseStorage, a node of a comment without child comments has no
\* replies field, never an empty sequence: a node has a replies sequence
\* only when it has at least one child.
\* ------------------------------------------------------------------------
C4_LeafHasNoReplies ==
  IsForestCall => \A n \in Nodes(res.value) : HasReplies(n) => n.replies # <<>>

\* ------------------------------------------------------------------------
\* C5  The forest built from the comments of one article sorted ascending by
\* createdAt has its roots in ascending createdAt order and, at every depth,
\* every node's replies in ascending createdAt order.
\* ------------------------------------------------------------------------
C5_SiblingsAscending ==
  IsForestCall
    => /\ IsAscending(res.value)
       /\ \A n \in Nodes(res.value) : IsAscending(RepliesOf(n))

\* two replies of one comment come back in the order of their createdAt,
\* which is not the order they were stored in
C5_Witness ==
  /\ IsForestCall
  /\ \E n \in Nodes(res.value) :
       /\ Len(RepliesOf(n)) = 2
       /\ n.replies[1].createdAt < n.replies[2].createdAt
       /\ n.replies[1].id > n.replies[2].id

\* ------------------------------------------------------------------------
\* C6  For an acyclic input the forest mirrors the parentId relation at any
\* depth: the roots are exactly the input comments without parentId, and the
\* replies of every node are exactly the input comments whose parentId is
\* that node's id.
\* ------------------------------------------------------------------------
C6_ForestMirrorsParentIds ==
  LET input == OfArticle(pre, req.id)
  IN (IsForestCall /\ Acyclic(input))
       => /\ Range(NodeIds(res.value))
               = {c.id : c \in {d \in Range(input) : d.parentId = Null}}
          /\ Len(res.value) = Cardinality(Range(NodeIds(res.value)))
          /\ \A n \in Nodes(res.value) :
               /\ Range(NodeIds(RepliesOf(n)))
                    = {c.id : c \in {d \in Range(input) : d.parentId = n.id}}
               /\ Len(RepliesOf(n)) = Cardinality(Range(NodeIds(RepliesOf(n))))

\* ------------------------------------------------------------------------
\* C11  When a comment of the input has an authorId that resolves to no
\* stored user, getArticleComments ends in an error that reaches the caller;
\* it never returns a forest.
\* ------------------------------------------------------------------------
C11_MissingAuthorThrows ==
  (/\ req.op = "getArticleComments"
   /\ \E c \in Range(OfArticle(pre, req.id)) : c.authorId \notin UserIds)
    => res.threw

\* ------------------------------------------------------------------------
\* C12  When the comments of the article contain a parent cycle (a comment
\* that is its own ancestor through parentId links), getArticleComments
\* fails fast: it throws and never returns a forest.
\* ------------------------------------------------------------------------
C12_CycleThrows ==
  (req.op = "getArticleComments" /\ ~Acyclic(OfArticle(pre, req.id)))
    => res.threw

\* ------------------------------------------------------------------------
\* C13  The author attached to every node of the forest answered by GET
\* /api/articles/:articleId/comments carries no password field.
\* ------------------------------------------------------------------------
C13_AuthorWithoutPassword ==
  (req.op = "GET" /\ res.status = 200)
    => \A n \in Nodes(res.value) :
         "author" \in DOMAIN n => "password" \notin DOMAIN n.author

\* ------------------------------------------------------------------------
\* C14  In every state reached from the empty store through POST
\* create-comment and DELETE comment requests, the parentId relation over
\* the stored comments is acyclic: no comment is reachable from itself by
\* following parentId links.
\* ------------------------------------------------------------------------
C14_StoredParentsAcyclic == Acyclic(comments)

\* a POST stored a reply to a reply: a chain of three comments
C14_Witness ==
  /\ req.op = "POST"
  /\ res.status = 201
  /\ \E c \in Range(comments) :
       /\ c.id \notin Ids(pre)
       /\ c.parentId \in Ids(pre)
       /\ ParentIdOf(pre, c.parentId) \in Ids(pre)

\* ------------------------------------------------------------------------
\* C15  In every state reached through POST create-comment and DELETE
\* comment requests, every stored comment whose parentId names a stored
\* comment has the same articleId as that parent.
\* ------------------------------------------------------------------------
C15_ReplySharesArticle ==
  \A c \in Range(comments) :
    c.parentId \in Ids(comments)
      => Lookup(comments, c.parentId)[1].articleId = c.articleId

\* a stored reply next to a stored comment of another article
C15_Witness ==
  \E c, d \in Range(comments) :
    /\ c.parentId \in Ids(comments)
    /\ d.articleId # c.articleId

\* ------------------------------------------------------------------------
\* C16  Over any sequence of createComment and deleteComment calls, the id
\* returned by createComment is not below the id counter and the counter
\* moves past it and never back, so the id differs from every id returned
\* earlier, ids of deleted comments included; the stored ids are distinct,
\* and a comment that stays stored keeps its id and createdAt.
\* ------------------------------------------------------------------------
C16_IdsFreshAndImmutable ==
  [][/\ commentId' >= commentId
     /\ (req'.op = "createComment" /\ ~res'.threw)
          => /\ res'.value[1].id >= commentId
             /\ res'.value[1].id < commentId'
             /\ res'.value[1].id \notin Ids(comments)
     /\ Cardinality(Ids(comments')) = Len(comments')
     /\ \A c \in Range(comments) :
          c.id \in Ids(comments')
            => \E d \in Range(comments') :
                 d.id = c.id /\ d.createdAt = c.createdAt]_vars

\* MemStorage.createComment returned an id while an id handed out earlier
\* was no longer stored
C16_Witness ==
  /\ storage = "MemStorage"
  /\ req.op = "createComment"
  /\ Len(pre) < res.value[1].id - 1

\* ------------------------------------------------------------------------
\* C17  getArticleComments is read-only: whatever the stored comments and
\* the article asked for, the stored comments after the call are the stored
\* comments before it.  (The users are the constant table users: no
\* operation on comments writes it.)
\* ------------------------------------------------------------------------
C17_GetArticleCommentsReadOnly ==
  req.op = "getArticleComments" => comments = pre

\* a forest was built from comments stored in an order that is not the
\* order of their createdAt
C17_Witness ==
  /\ req.op = "getArticleComments"
  /\ res.value # <<>>
  /\ ~IsAscending(pre)
  /\ comments = pre

\* ------------------------------------------------------------------------
\* C20  Every node, at every depth, of the forest returned by
\* getArticleComments(a) is a comment whose articleId is a; comments of
\* other articles never appear in it.
\* ------------------------------------------------------------------------
C20_ForestOfOneArticle ==
  IsForestCall => \A n \in Nodes(res.value) : n.articleId = req.id

\* the forest of an article was returned while a comment of another article
\* was stored as a reply to one of its nodes
C20_Witness ==
  /\ IsForestCall
  /\ \E n \in Nodes(res.value) :
       \E c \in Range(pre) : c.parentId = n.id /\ c.articleId # req.id

\* ------------------------------------------------------------------------
\* C18  DELETE /api/comments/:id by the comment's author answers only 200 or
\* 404, also when two DELETE requests for the same comment or for
\* overlapping subtrees are served concurrently by DatabaseStorage; it never
\* answers 500.  (403 is the answer to a requester who is not the author,
\* 401 to one who is not signed in.)
\* ------------------------------------------------------------------------
C18_ConcurrentDeleteNever500 ==
  \A h \in Handlers :
    inflight[h].pc = "done" => inflight[h].status \in {200, 404, 403, 401}

\* ------------------------------------------------------------------------
\* C19  During a cascading DatabaseStorage.deleteComment a row is deleted
\* only after every comment whose parentId refers to it has been deleted:
\* no row delete is attempted, and refused by the foreign key, while a child
\* row is left, and at no intermediate step does the store hold a comment
\* whose parent was removed.
\* ------------------------------------------------------------------------
C19_ChildrenBeforeParent ==
  /\ \A c \in Range(comments) : c.parentId # Null => c.parentId \in Ids(comments)
  /\ \A h \in Handlers : inflight[h].message # "Server error"

\* in the middle of a cascade: a child that the select returned is deleted
\* and the comment the cascade started from is still stored
C19_Witness ==
  \E h \in Handlers :
    /\ inflight[h].pc = "cascade"
    /\ inflight[h].stack[1].id \in Ids(comments)
    /\ \E i \in 1..Len(inflight[h].stack[1].childComments) :
         inflight[h].stack[1].childComments[i] \notin Ids(comments)

\* ------------------------------------------------------------------------
\* C21  Building the tree from an empty list of comments (an article
\* without comments) returns the empty sequence, not an error.
\* ------------------------------------------------------------------------
C21_EmptyInputEmptyForest ==
  (req.op = "getArticleComments" /\ OfArticle(pre, req.id) = <<>>)
    => (~res.threw /\ res.value = <<>>)

\* the forest of an article without comments, asked for while comments of
\* another article are stored
C21_Witness ==
  /\ req.op = "getArticleComments"
  /\ OfArticle(pre, req.id) = <<>>
  /\ pre # <<>>
  /\ res.value = <<>>

\* ------------------------------------------------------------------------
\* C22  Among sibling nodes (roots, or replies of one node) of equal
\* createdAt, the forest returned by MemStorage.getArticleComments lists
\* them in ascending id order, the order they were inserted in.
\* ------------------------------------------------------------------------
TiesInIdOrder(siblings) ==
  \A i \in 1..Len(siblings) : \A j \in (i + 1)..Len(siblings) :
    siblings[i].createdAt = siblings[j].createdAt => siblings[i].id < siblings[j].id

C22_MemTiesInInsertionOrder ==
  (IsForestCall /\ storage = "MemStorage")
    => /\ TiesInIdOrder(res.value)
       /\ \A n \in Nodes(res.value) : TiesInIdOrder(RepliesOf(n))

\* three roots: the sort moved the last inserted one to the front and left
\* the two of equal createdAt behind it
C22_Witness ==
  /\ IsForestCall /\ storage = "MemStorage"
  /\ Len(res.value) = 3
  /\ res.value[1].id > res.value[2].id
  /\ res.value[2].createdAt = res.value[3].createdAt

\* ------------------------------------------------------------------------
\* C23  MemStorage.buildCommentTree and DatabaseStorage.buildCommentTree are
\* the same function: for every list of comments (here the sorted comments
\* of each article of the store) they return the same forest, the replies
\* field of each node and its absence on leaves included.
\* ------------------------------------------------------------------------
C23_BuildersAgree ==
  \A a \in ArticleIds :
    LET input == SortByCreatedAt(OfArticle(comments, a))
    IN MemBuildCommentTree(input) = DbBuildCommentTree(input)

\* ------------------------------------------------------------------------
\* C24  storage.createComment does not validate parentId: for any parentId
\* (of a stored comment, of no stored comment, of a comment of another
\* article) it persists exactly one new comment carrying the given content,
\* authorId, articleId and parentId, and leaves every stored comment as it
\* was.
\* ------------------------------------------------------------------------
CreatedAsGiven ==
  /\ ~res.threw
  /\ Len(comments) = Len(pre) + 1
  /\ SubSeq(comments, 1, Len(pre)) = pre
  /\ LET c == comments[Len(comments)]
     IN /\ c.content = req.body.content
        /\ c.authorId = req.body.authorId
        /\ c.articleId = req.body.articleId
        /\ c.parentId = req.body.parentId
        /\ res.value = <<c>>

C25_NoOrphanReply ==
  \A c \in Range(comments) : c.parentId \in Ids(pre) => c.parentId \in Ids(comments)

\* ------------------------------------------------------------------------
\* C26  After any sequence of create and delete operations, the forest
\* returned for article a contains every stored comment with articleId a
\* exactly once, as a root or inside some replies list: no stored comment is
\* dropped and none is duplicated.
\* ------------------------------------------------------------------------
\* the ids of the nodes of a forest, depth first, with repetitions
RECURSIVE FlatIds(_)
FlatIds(forest) ==
  IF forest = <<>> THEN <<>>
  ELSE <<forest[1].id>> \o FlatIds(RepliesOf(forest[1])) \o FlatIds(Tail(forest))

C26_ForestHoldsEveryComment ==
  (req.op = "GET" /\ res.status = 200)
    => LET ids == FlatIds(res.value)
       IN /\ Range(ids) = Ids(OfArticle(pre, req.id))
          /\ Len(ids) = Cardinality(Range(ids))

\* ------------------------------------------------------------------------
\* C27  The comment persisted by a POST create-comment request has authorId
\* equal to the authenticated requester's id and articleId equal to the
\* article id of the URL, whatever authorId and articleId the body carries.
\* ------------------------------------------------------------------------
C27_AuthorAndArticleFromRequest ==
  req.op = "POST"
    => \A c \in Range(comments) :
         c.id \notin Ids(pre) => (c.authorId = req.user /\ c.articleId = req.id)

\* a comment was persisted for a body naming another author and another
\* article than the requester and the URL
C27_Witness ==
  /\ req.op = "POST"
  /\ res.status = 201
  /\ Len(comments) = Len(pre) + 1
  /\ req.body.authorId # req.user
  /\ req.body.articleId # req.id

\* ------------------------------------------------------------------------
\* C28  Tree building terminates on every finite input list, lists whose
\* parentId links contain a cycle or a self-reference included: every step
\* makes one node or finishes one list, a call takes at most two steps per
\* comment of the input and one more, no comment is visited twice, and a
\* comment that is its own ancestor is never visited.
\* ------------------------------------------------------------------------
OnCycle(cs, id) ==
  ParentIdOf(cs, id) # Null /\ Reaches(cs, ParentIdOf(cs, id), id, Len(cs))

C28_TreeBuildingTerminates ==
  /\ building.steps <= 2 * Len(building.input) + 1
  /\ Len(building.visited) = Cardinality(Range(building.visited))
  /\ \A id \in Range(building.visited) : ~OnCycle(building.input, id)
  /\ building.pc = "walk" => building.stack # <<>>

\* a call on a list that holds a cycle and a root came to its end
C28_Witness ==
  /\ building.pc = "done"
  /\ ~Acyclic(building.input)
  /\ building.visited # <<>>

\* ------------------------------------------------------------------------
\* C29  DatabaseStorage.deleteComment(id) terminates for every id in every
\* store state reached through creates and deletes: a handler that has
\* called deleteComment comes to its answer, the recursion over the child
\* comments always reaching comments without children.
\* ------------------------------------------------------------------------
C29_DbDeleteTerminates ==
  \A h \in Handlers : (inflight[h].pc = "select") ~> (inflight[h].pc = "done")

\* the recursion is as deep as the store allows: a chain of MaxComments
\* suspended calls
C29_Witness ==
  \E h \in Handlers :
    /\ inflight[h].pc = "cascade"
    /\ Len(inflight[h].stack) = MaxComments

\* ------------------------------------------------------------------------
\* C30  When a POST create-comment with parentId P and a DELETE of comment P
\* are served concurrently by DatabaseStorage, the new reply is stored only
\* if P is still stored: in no state, and so in no final state, is the
\* reply stored and P gone.
\* ------------------------------------------------------------------------
C30_ReplyStoredOnlyWithParent ==
  \A c \in Range(comments) :
    (c.id = posting.created /\ c.parentId # Null) => c.parentId \in Ids(comments)

\* the DELETE of P removed P between the parent check of the POST and its
\* insert: the DELETE answered 200 and the POST was refused
C30_Witness ==
  /\ posting.pc = "done"
  /\ posting.status = 500
  /\ posting.parentId \notin Ids(comments)
  /\ \E h \in Handlers : inflight[h].id = posting.parentId /\ inflight[h].status = 200

====
